---- MODULE Spec2Model ----
(***************************************************************************)
(* Model of the real-time voice gateway of 404sooraj/anta:                 *)
(*   - the agent-handoff registry (server/routers/agent.py, HandoffManager *)
(*     and the agent_websocket handler) together with the caller side of   *)
(*     the handoff (server/routers/stt.py, audio_websocket);               *)
(*   - the utterance debouncer and the respond-task controller of one      *)
(*     caller session (server/routers/stt.py).                             *)
(* Spec     : registry, agent connections and caller connections.          *)
(* SpecLock : the same, with notifications that take time to be sent.      *)
(* SpecSameId : the registry with the consoles signed in under one id.     *)
(* SpecTurn : one caller session: fragments, quiet timers, respond tasks.  *)
(* SpecBarge: the same session over a longer conversation.                 *)
(* SpecFail : the same session with a speech synthesis that can fail.      *)
(* SpecEnd  : the same session with an ingress loop that ends.             *)
(* SpecResample : upsample_audio of the relay (server/routers/agent.py).   *)
(* SpecVad  : the voice-activity segmenter of one session                  *)
(*            (server/api/stt/routes.py, server/routers/twilio.py).        *)
(***************************************************************************)
EXTENDS Integers, Sequences, FiniteSets, TLC

\* ---------------------------------------------------------------- bounds
NumCallers == 2
NumAgentConns == 2
NumAgentIds == 2
MaxSessions == 2
\* fragments delivered to one caller session; every fragment schedules one
\* timer and every finalized utterance creates at most one respond task
MaxFrags == 3
\* fragments delivered in the specification of longer conversations
MaxBargeFrags == 4
\* text chunks of one language-model stream, audio chunks of one synthesis
MaxChunks == 1
MaxAudio == 1
\* the frames with speech that open the scripted frame sequence, and how many
\* silence transitions are counted
MaxSpeechFrames == 20
MaxTransitions == 3
\* samples in one relayed audio buffer
MaxSamples == 12
\* stt.py 169: UTTERANCE_TIMEOUT = 1.0, in clock ticks of one second
UTTERANCE_TIMEOUT == 1
\* api/stt/routes.py 46, twilio.py 48: SILENCE_LIMIT_CHUNKS = 15
SILENCE_LIMIT_CHUNKS == 15

TimerIds == 1..MaxBargeFrags
TaskIds == 1..MaxBargeFrags
Callers == 1..NumCallers
AgentConns == 1..NumAgentConns
SessionIds == 1..MaxSessions
\* "no value" for an Optional[str] such as current_session / handoff_session_id
None == 0

VARIABLES
  \* ---- HandoffManager (agent.py 84-88)
  pending_handoffs,   \* session_id -> [user_ws]
  active_calls,       \* session_id -> [agent_id, user_ws, agent_ws]
  available_agents,   \* agent_id -> agent connection
  next_sid,           \* next fresh session id (uuid4 of PendingHandoff)
  registry_lock,      \* agent.py 88: _lock; None, or the session whose
                      \* request_handoff holds it
  \* ---- agent_websocket, one per agent connection
  agent_pc,           \* "new" | "open" | "closed"
  current_session,    \* agent.py 381
  agent_view,         \* the pending sessions the agent has been told of
  \* ---- audio_websocket, one per caller connection (handoff part)
  user_pc,            \* "open" | "closed"
  handoff_session_id, \* stt.py 152
  \* ---- history
  accepted_by,        \* session_id -> agent ids whose accept created the call
  last,               \* the last operation and what it returned
  \* ---- one caller session of audio_websocket (stt.py 144-177)
  current_utterance_parts, \* stt.py 167: buffered fragments
  utterance_timer_task,    \* stt.py 168: the timer the session tracks
  timers,             \* the timer tasks created by schedule_timer
  sched_pending,      \* schedule_timer callbacks queued by call_soon_threadsafe
  stt_pc,             \* position of the transcription thread in on_transcript
  next_frag,          \* the next fragment the transcription thread delivers
  blank_frags,        \* fragments whose text is empty after strip()
  since_frag,         \* clock ticks since the last fragment arrived (saturating)
  tts_task,           \* stt.py 146: the respond task the session tracks
  tasks,              \* the respond tasks created by finalize_utterance
  lock_holder,        \* stt.py 148: processing_lock
  lock_waiters,       \* tasks waiting for processing_lock, in order
  conversation_history, \* stt.py 145
  finalized,          \* the utterances finalized so far (stt.py 193)
  hearing,            \* the last step was a caller audio frame with speech
  \* ---- the voice-activity segmenter of one session
  vad,                \* kind of session, its handler, speaking, silence_chunks
  heard,              \* the frames the caller has produced so far
  \* ---- the relay's resampler
  resampled,          \* one call of upsample_audio: its arguments and result
  \* ---- the agent connections' query parameters
  agent_ids           \* agent.py 369: connection -> the agent_id it presents

regvars == <<pending_handoffs, active_calls, available_agents, next_sid,
             registry_lock>>
agentvars == <<agent_pc, current_session, agent_view>>
uservars == <<user_pc, handoff_session_id>>
hvars == <<regvars, agentvars, uservars, accepted_by>>
debvars == <<current_utterance_parts, utterance_timer_task, timers,
             sched_pending, stt_pc, next_frag, blank_frags, since_frag>>
taskvars == <<tts_task, tasks, lock_holder, lock_waiters>>
vadvars == <<vad, heard>>
audiovars == <<vadvars, resampled, agent_ids>>
tvars == <<debvars, taskvars, conversation_history, finalized, audiovars>>
vars == <<hvars, last, tvars, hearing>>

\* ------------------------------------------------------------- helpers
\* the latest registry operation of a handler: which one, for which session,
\* what it answered, and (for accept_call) the agent connection that asked
Op(o, s, r) == [op |-> o, sid |-> s, ret |-> r, by |-> None]

\* dict helpers
Without(m, k) == [x \in DOMAIN m \ {k} |-> m[x]]
With(m, k, v) == [x \in DOMAIN m \cup {k} |-> IF x = k THEN v ELSE m[x]]

\* agent.py 369: the agent_id query parameter of an agent connection
agent_id(c) == agent_ids[c]

\* every console signs in under an agent id of its own (handed out
\* round-robin)
OwnIds == [c \in AgentConns |-> ((c - 1) % NumAgentIds) + 1]

\* every console signs in under the same agent id: one agent with several
\* tabs, or a console that reconnects before its old connection is closed
SameId == [c \in AgentConns |-> 1]

\* The registry as one value: the three maps of HandoffManager and, per agent
\* connection, the pending sessions its console has been told of.
Reg == [pending |-> pending_handoffs, active |-> active_calls,
        agents |-> available_agents, view |-> agent_view]

\* A HandoffManager call that runs to its end: `async with self._lock` (98,
\* 123, 146, 153, 205, 235) is entered when the lock is free and left with
\* the lock free.
SetRegUnlocked(r) ==
  /\ registry_lock' = registry_lock
  /\ pending_handoffs' = r.pending
  /\ active_calls' = r.active
  /\ available_agents' = r.agents
  /\ agent_view' = r.view
SetReg(r) ==
  /\ registry_lock = None
  /\ registry_lock' = None
  /\ pending_handoffs' = r.pending
  /\ active_calls' = r.active
  /\ available_agents' = r.agents
  /\ agent_view' = r.view

\* What the agent's console shows as waiting after a server message:
\* queue_status replaces the list, new_pending_call adds to it, call_accepted,
\* call_accepted_by_other and call_cancelled withdraw the session. A message
\* for a connection whose handler has left its receive loop is not delivered
\* (the send raises).
Deliver(view, c, type, x) ==
  IF agent_pc[c] # "open" THEN view
  ELSE [view EXCEPT ![c] =
          CASE type = "queue_status" -> x
            [] type = "new_pending_call" -> @ \cup {x}
            [] type \in {"call_accepted", "call_accepted_by_other",
                         "call_cancelled"} -> @ \ {x}
            [] OTHER -> @]

\* agent.py 296-304: every registered agent except exclude_agent is sent the
\* message; a failing send is logged and skipped.
broadcast_to_agents(r, type, sid, exclude_agent) ==
  [c \in AgentConns |->
     IF \E a \in DOMAIN r.agents : r.agents[a] = c /\ a # exclude_agent
     THEN Deliver(r.view, c, type, sid)[c] ELSE r.view[c]]

\* ------------------------------------------------------ HandoffManager
\* agent.py 90-119; sid is the fresh uuid of the PendingHandoff
request_handoff(r, u, sid) ==
  LET r1 == [r EXCEPT !.pending = With(@, sid, [user_ws |-> u])] IN
    [r1 EXCEPT !.view = broadcast_to_agents(r1, "new_pending_call", sid, None)]

\* agent.py 128-137: the pending sessions listed in the queue_status message
queue_status_none(r) == {}
queue_status(r) == DOMAIN r.pending

\* agent.py 121-142: the agent is entered in the directory and sent the
\* current queue; the send (138) is not guarded
register_agent(r, a, c, fails) ==
  [r EXCEPT !.agents = With(@, a, c),
            !.view = IF fails THEN @ ELSE [@ EXCEPT ![c] = queue_status(r)]]

\* agent.py 144-149
unregister_agent(r, a) ==
  IF a \in DOMAIN r.agents THEN [r EXCEPT !.agents = Without(@, a)] ELSE r

\* agent.py 154: the availability test of accept_call
accept_call_available(r, sid) == sid \in DOMAIN r.pending

\* agent.py 156: what accept_call answers when the session is not pending
accept_call_missRaises == "raised"
accept_call_miss == "unavailable"

\* agent.py 158: the pending map after the accepted handoff is popped
accept_call_keepPending(r, sid) == r.pending
accept_call_pop(r, sid) == Without(r.pending, sid)

\* agent.py 161-170: the ActiveCall created by accept_call
accept_call_create(r, a, c, sid) ==
  With(r.active, sid,
       [agent_id |-> a, user_ws |-> r.pending[sid].user_ws, agent_ws |-> c])

\* agent.py 175-199: the notifications of accept_call. The send to the
\* caller (176) is guarded and leaves no trace in the registry. The send to
\* the agent (186) is not guarded: when it raises, the broadcast (196) is not
\* reached.
accept_call_notify(r, a, c, sid, fails) ==
  IF fails THEN r.view
  ELSE broadcast_to_agents([r EXCEPT !.view = Deliver(@, c, "call_accepted", sid)],
                           "call_accepted_by_other", sid, a)

\* agent.py 151-201: what the call returns; "created_raised" when the
\* ActiveCall was created and the send to the agent (186) raised
accept_call_ret(r, sid, fails) ==
  IF ~ accept_call_available(r, sid) THEN accept_call_miss
  ELSE IF fails THEN "created_raised" ELSE "created"

\* agent.py 151-201: the registry after the call
accept_call(r, a, c, sid, fails) ==
  IF accept_call_available(r, sid)
  THEN [r EXCEPT !.pending = accept_call_pop(r, sid),
                 !.active = accept_call_create(r, a, c, sid),
                 !.view = accept_call_notify(r, a, c, sid, fails)]
  ELSE r

\* agent.py 203-231: both notifications (212, 221) are guarded
end_call_activeOnly(r, sid) ==
  [r EXCEPT !.active = IF sid \in DOMAIN @ THEN Without(@, sid) ELSE @]
end_call(r, sid) ==
  [r EXCEPT !.active = IF sid \in DOMAIN @ THEN Without(@, sid) ELSE @,
            !.pending = IF sid \in DOMAIN @ THEN Without(@, sid) ELSE @]

\* agent.py 233-244
cancel_handoff(r, sid) ==
  IF sid \in DOMAIN r.pending
  THEN LET r1 == [r EXCEPT !.pending = Without(@, sid)] IN
         [r1 EXCEPT !.view = broadcast_to_agents(r1, "call_cancelled", sid, None)]
  ELSE r

\* agent.py 262-285: relay to the caller, only while the call is active; a
\* failed send (the caller's handler has left its loop) is logged and ignored
relay_to_user_unchecked(sid) == "forwarded"
relay_to_user(sid) ==
  IF sid \notin DOMAIN active_calls THEN "dropped"
  ELSE IF user_pc[active_calls[sid].user_ws] = "open"
       THEN "forwarded" ELSE "send_failed"

\* agent.py 246-260, 287-294: relay to the agent, only while the call is active
relay_to_agent(sid) ==
  IF sid \notin DOMAIN active_calls THEN "dropped"
  ELSE IF agent_pc[active_calls[sid].agent_ws] = "open"
       THEN "forwarded" ELSE "send_failed"

\* ------------------------------------------- agent_websocket (agent.py)
\* agent.py 437-441, the finally block: unregister the agent id, then end
\* the call the handler believes it is in. The console of the connection
\* shows nothing any more.
agent_finally(r, c) ==
  LET r1 == unregister_agent(r, agent_id(c))
      r2 == IF current_session[c] # None THEN end_call(r1, current_session[c]) ELSE r1
  IN [r2 EXCEPT !.view = [@ EXCEPT ![c] = {}]]

\* the handler returns through its finally block
AgentLeave(r, c) ==
  /\ SetReg(agent_finally(r, c))
  /\ agent_pc' = [agent_pc EXCEPT ![c] = "closed"]
  /\ current_session' = [current_session EXCEPT ![c] = None]

\* agent.py 369-381: accept the connection and register the agent. The
\* queue_status send of register_agent (138) is outside the try block of the
\* handler: when it fails (the transport is already gone) it raises out of
\* the handler, and the finally block that unregisters is never entered.
AgentConnect(c, fails) ==
  /\ agent_pc[c] = "new"
  /\ UNCHANGED tvars
  /\ hearing' = FALSE
  /\ SetReg(register_agent(Reg, agent_id(c), c, fails))
  /\ agent_pc' = [agent_pc EXCEPT ![c] = IF fails THEN "closed" ELSE "open"]
  /\ last' = [Op("register_agent", None, IF fails THEN "raised" ELSE "ok")
                EXCEPT !.by = c]
  /\ UNCHANGED <<next_sid, current_session, uservars, accepted_by>>

\* agent.py 400-410: {"type": "accept_call", "session_id": sid}; `fails`: the
\* sends to this agent fail (its transport is gone, the message was buffered).
\* When accept_call raises, or the error reply (407) cannot be sent, the
\* handler leaves through except/finally (435-441) with current_session as
\* it was.
AgentAcceptCall(c, sid, fails) ==
  /\ agent_pc[c] = "open"
  /\ UNCHANGED tvars
  /\ hearing' = FALSE
  /\ LET ret == accept_call_ret(Reg, sid, fails)
         r == accept_call(Reg, agent_id(c), c, sid, fails)
     IN /\ last' = [Op("accept_call", sid, ret) EXCEPT !.by = c]
        /\ accepted_by' = IF ret \in {"created", "created_raised"}
                          THEN [accepted_by EXCEPT ![sid] = Append(@, agent_id(c))]
                          ELSE accepted_by
        /\ IF ret = "created"
           THEN /\ SetReg(r)
                /\ current_session' = [current_session EXCEPT ![c] = sid]
                /\ UNCHANGED agent_pc
           ELSE IF ret = "unavailable" /\ ~fails
           THEN /\ SetReg(r)
                /\ UNCHANGED <<current_session, agent_pc>>
           ELSE AgentLeave(r, c)
  /\ UNCHANGED <<next_sid, uservars>>

\* agent.py 412-416: {"type": "end_call", "session_id": sid?}
AgentEndCall(c, sid) ==
  /\ agent_pc[c] = "open"
  /\ UNCHANGED tvars
  /\ hearing' = FALSE
  /\ LET session_id == IF sid # None THEN sid ELSE current_session[c] IN
       IF session_id # None
       THEN /\ SetReg(end_call(Reg, session_id))
            /\ current_session' = [current_session EXCEPT ![c] = None]
            /\ last' = [Op("end_call", session_id, "ok") EXCEPT !.by = c]
       ELSE /\ UNCHANGED <<pending_handoffs, active_calls, available_agents,
                           registry_lock, agent_view, current_session>>
            /\ last' = Op("end_call", None, "skipped")
  /\ UNCHANGED <<next_sid, agent_pc, uservars, accepted_by>>

\* agent.py 418-425: {"type": "message", "session_id": sid?, "text": ...}
AgentMessage(c, sid) ==
  /\ agent_pc[c] = "open"
  /\ UNCHANGED tvars
  /\ hearing' = FALSE
  /\ LET session_id == IF sid # None THEN sid ELSE current_session[c] IN
       last' = IF session_id # None
               THEN [Op("relay_to_user", session_id, relay_to_user(session_id))
                       EXCEPT !.by = c]
               ELSE Op("relay_to_user", None, "skipped")
  /\ UNCHANGED <<regvars, agentvars, uservars, accepted_by>>

\* agent.py 390-393: a binary frame from the agent
AgentAudio(c) ==
  /\ agent_pc[c] = "open"
  /\ UNCHANGED tvars
  /\ hearing' = FALSE
  /\ last' = IF current_session[c] # None
             THEN Op("relay_to_user", current_session[c],
                     relay_to_user(current_session[c]))
             ELSE Op("relay_to_user", None, "skipped")
  /\ UNCHANGED <<regvars, agentvars, uservars, accepted_by>>

\* agent.py 427-428: {"type": "ping"}; a failed pong raises out of the loop
AgentPing(c, fails) ==
  /\ agent_pc[c] = "open"
  /\ UNCHANGED tvars
  /\ hearing' = FALSE
  /\ IF fails THEN AgentLeave(Reg, c)
     ELSE UNCHANGED <<pending_handoffs, active_calls, available_agents,
                      registry_lock, agentvars>>
  /\ last' = Op("other", None, "ok")
  /\ UNCHANGED <<next_sid, uservars, accepted_by>>

\* agent.py 385-388: ws.receive() delivers websocket.disconnect -> break
AgentDisconnect(c) ==
  /\ agent_pc[c] = "open"
  /\ UNCHANGED tvars
  /\ hearing' = FALSE
  /\ AgentLeave(Reg, c)
  /\ last' = Op("other", None, "ok")
  /\ UNCHANGED <<next_sid, uservars, accepted_by>>

\* ------------------------------- audio_websocket, handoff part (stt.py)
\* stt.py 365: `if user_id and not handoff_session_id`, the one test between
\* a requestHumanAgent tool result and HandoffManager.request_handoff, which
\* itself queues whatever it is given
handoff_unguarded(u) == TRUE
handoff_guard(u) == handoff_session_id[u] = None

\* stt.py 353-379: the respond task of caller u finds a requestHumanAgent
\* tool result: the caller is queued for a human agent, unless the session
\* already holds a handoff session id
CallerRequestHandoff(u) ==
  /\ user_pc[u] = "open"
  /\ UNCHANGED tvars
  /\ hearing' = FALSE
  /\ IF handoff_guard(u)
     THEN /\ next_sid <= MaxSessions
          /\ SetReg(request_handoff(Reg, u, next_sid))
          /\ next_sid' = next_sid + 1
          /\ handoff_session_id' = [handoff_session_id EXCEPT ![u] = next_sid]
          /\ last' = [Op("request_handoff", next_sid, "ok") EXCEPT !.by = u]
     ELSE /\ last' = [Op("request_handoff", handoff_session_id[u], "skipped")
                        EXCEPT !.by = u]
          /\ UNCHANGED <<regvars, agent_view, handoff_session_id>>
  /\ UNCHANGED <<agent_pc, current_session, user_pc, accepted_by>>

\* agent.py 98-110, 296-302: request_handoff has taken _lock and queued the
\* PendingHandoff; it is suspended in a send of its broadcast, inside
\* `async with self._lock`. The respond task that called it waits for the
\* session id.
RequestHandoffSending(u) ==
  /\ user_pc[u] = "open"
  /\ handoff_guard(u)
  /\ next_sid <= MaxSessions
  /\ registry_lock = None
  /\ available_agents # <<>>
  /\ pending_handoffs' = With(pending_handoffs, next_sid, [user_ws |-> u])
  /\ registry_lock' = next_sid
  /\ next_sid' = next_sid + 1
  /\ last' = [Op("request_handoff", next_sid, "sending") EXCEPT !.by = u]
  /\ hearing' = FALSE
  /\ UNCHANGED <<active_calls, available_agents, agentvars, uservars,
                 accepted_by, tvars>>

\* agent.py 110-119, stt.py 366: the sends of the broadcast are over,
\* request_handoff leaves the lock and returns the session id to the respond
\* task, if the caller's handler is still there to keep it
RequestHandoffSent ==
  /\ registry_lock # None
  /\ agent_view' = broadcast_to_agents(Reg, "new_pending_call",
                                       registry_lock, None)
  /\ registry_lock' = None
  /\ LET u == pending_handoffs[registry_lock].user_ws IN
       handoff_session_id' =
         IF user_pc[u] = "open"
         THEN [handoff_session_id EXCEPT ![u] = registry_lock]
         ELSE handoff_session_id
  /\ last' = Op("other", None, "ok")
  /\ hearing' = FALSE
  /\ UNCHANGED <<pending_handoffs, active_calls, available_agents, next_sid,
                 agent_pc, current_session, user_pc, accepted_by, tvars>>

\* stt.py 484-499: a binary audio frame from the caller
CallerAudio(u) ==
  /\ user_pc[u] = "open"
  /\ UNCHANGED tvars
  /\ hearing' = FALSE
  /\ last' = IF handoff_session_id[u] # None
             THEN Op("relay_to_agent", handoff_session_id[u],
                     relay_to_agent(handoff_session_id[u]))
             ELSE Op("relay_to_agent", None, "skipped")
  /\ UNCHANGED <<regvars, agentvars, uservars, accepted_by>>

\* stt.py 516-519 / 526-529, in the except blocks: when the caller is queued
\* or in a call, cancel_handoff and then end_call
caller_cleanup(r, u) ==
  IF handoff_session_id[u] # None
  THEN end_call(cancel_handoff(r, handoff_session_id[u]), handoff_session_id[u])
  ELSE r

\* stt.py 507-508: {"type": "ping"}; a failed pong raises out of the loop
\* into the except blocks (512, 520); the handler returns and its local
\* handoff_session_id is gone
CallerPing(u, fails) ==
  /\ user_pc[u] = "open"
  /\ UNCHANGED tvars
  /\ hearing' = FALSE
  /\ IF fails
     THEN /\ SetReg(caller_cleanup(Reg, u))
          /\ user_pc' = [user_pc EXCEPT ![u] = "closed"]
          /\ handoff_session_id' = [handoff_session_id EXCEPT ![u] = None]
     ELSE UNCHANGED <<pending_handoffs, active_calls, available_agents,
                      registry_lock, agent_view, uservars>>
  /\ last' = Op("other", None, "ok")
  /\ UNCHANGED <<next_sid, agent_pc, current_session, accepted_by>>

\* stt.py 479-482: ws.receive() delivers websocket.disconnect -> break; the
\* loop is left without an exception, so only the finally block (530-536)
\* runs; the handler returns and its local handoff_session_id is gone
CallerDisconnect(u) ==
  /\ user_pc[u] = "open"
  /\ UNCHANGED tvars
  /\ hearing' = FALSE
  /\ user_pc' = [user_pc EXCEPT ![u] = "closed"]
  /\ handoff_session_id' = [handoff_session_id EXCEPT ![u] = None]
  /\ last' = Op("other", None, "ok")
  /\ UNCHANGED <<regvars, agentvars, accepted_by>>

\* ------------------- one caller session: debouncer and respond tasks
\* the caller connection whose session is modelled in detail
ME == 1

\* over: the respond tasks that had not ended when the timer's utterance was
\* finalized
NoTimer == [st |-> "none", remaining |-> 0, text |-> <<>>, waits |-> None,
            over |-> {}]
\* over: the respond tasks that had not ended when the utterance of this one
\* was finalized, or when this one was created
NoTask == [st |-> "none", cancel_req |-> FALSE, chunks |-> 0, audio |-> 0,
           sent |-> FALSE, interrupted |-> FALSE, over |-> {}]

\* a timer task that has returned
TimerDone == [NoTimer EXCEPT !.st = "done"]

TaskLive(k) == tasks[k].st \in {"created", "wait_lock", "llm", "stream", "tts"}
\* Task.done(): returned, cancelled, or ended by an exception
TaskEnded(k) == tasks[k].st \in {"done", "cancelled", "raised"}

\* The event loop runs one task step at a time: while a finalize_utterance is
\* between its join (187) and its clear (188) no other loop task runs; only
\* the transcription thread can.
LoopFree == \A t \in TimerIds : timers[t].st # "joined"

FreshTimer == CHOOSE t \in TimerIds :
                timers[t].st = "none" /\ \A x \in 1..(t-1) : timers[x].st # "none"
FreshTask == CHOOSE k \in TaskIds :
               tasks[k].st = "none" /\ \A x \in 1..(k-1) : tasks[x].st # "none"

\* " ".join(parts).strip() is empty (stt.py 187, 190)
Blank(text) == \A i \in 1..Len(text) : text[i] \in blank_frags

Min(a, b) == IF a < b THEN a ELSE b

\* a step of the session that neither hears the caller speak, nor calls the
\* registry, nor feeds the voice-activity segmenter
Quiet ==
  /\ hearing' = FALSE
  /\ last' = Op("other", None, "ok")
  /\ UNCHANGED audiovars

\* time passes: asyncio.sleep(UTTERANCE_TIMEOUT) of every sleeping timer
Tick ==
  /\ \/ since_frag < UTTERANCE_TIMEOUT
     \/ \E t \in TimerIds : timers[t].st = "sleep" /\ timers[t].remaining > 0
  /\ since_frag' = Min(since_frag + 1, UTTERANCE_TIMEOUT)
  /\ timers' = [t \in TimerIds |->
                  IF timers[t].st = "sleep" /\ timers[t].remaining > 0
                  THEN [timers[t] EXCEPT !.remaining = @ - 1] ELSE timers[t]]
  /\ Quiet
  /\ UNCHANGED <<hvars, current_utterance_parts, utterance_timer_task,
                 sched_pending, stt_pc, next_frag, blank_frags, taskvars,
                 conversation_history, finalized>>

\* stt.py 263-275, on the transcription thread (soniox_service.py 151-152):
\* the fragment is appended to the buffer; `blank`: its text is empty after
\* strip(); `limit`: how many fragments the specification delivers
OnTranscriptAppend(blank, limit) ==
  /\ user_pc[ME] = "open"
  /\ stt_pc = "idle"
  /\ next_frag <= limit
  /\ current_utterance_parts' = Append(current_utterance_parts, next_frag)
  /\ blank_frags' = IF blank THEN blank_frags \cup {next_frag} ELSE blank_frags
  /\ next_frag' = next_frag + 1
  /\ since_frag' = 0
  /\ stt_pc' = "appended"
  /\ Quiet
  /\ UNCHANGED <<hvars, utterance_timer_task, timers, sched_pending, taskvars,
                 conversation_history, finalized>>

\* stt.py 278-279: Task.cancel() of the tracked timer. A timer that sleeps is
\* cancelled; one that already runs finalize_utterance swallows the
\* cancellation at its await of the respond task (215-218).
on_transcript_cancel ==
  IF utterance_timer_task # None /\ timers[utterance_timer_task].st = "sleep"
  THEN [timers EXCEPT ![utterance_timer_task] =
                        [NoTimer EXCEPT !.st = "cancelled"]]
  ELSE timers

\* stt.py 277-292, still on the transcription thread: cancel the tracked
\* timer and queue schedule_timer on the event loop
OnTranscriptSchedule ==
  /\ stt_pc = "appended"
  /\ timers' = on_transcript_cancel
  /\ sched_pending' = sched_pending + 1
  /\ stt_pc' = "idle"
  /\ Quiet
  /\ UNCHANGED <<hvars, current_utterance_parts, utterance_timer_task,
                 next_frag, blank_frags, since_frag, taskvars,
                 conversation_history, finalized>>

\* stt.py 283-290: schedule_timer runs on the event loop
ScheduleTimer ==
  /\ sched_pending > 0
  /\ LoopFree
  /\ timers' = [timers EXCEPT ![FreshTimer] =
                  [NoTimer EXCEPT !.st = "sleep", !.remaining = UTTERANCE_TIMEOUT]]
  /\ utterance_timer_task' = FreshTimer
  /\ sched_pending' = sched_pending - 1
  /\ Quiet
  /\ UNCHANGED <<hvars, current_utterance_parts, stt_pc, next_frag, blank_frags,
                 since_frag, taskvars, conversation_history, finalized>>

\* stt.py 286-288, 183-187: the sleep is over; finalize_utterance returns on an
\* empty buffer, otherwise joins the buffered fragments
FinalizeJoin(t) ==
  /\ timers[t].st = "sleep"
  /\ timers[t].remaining = 0
  /\ LoopFree
  /\ timers' = [timers EXCEPT ![t] =
                  IF current_utterance_parts = <<>>
                  THEN TimerDone
                  ELSE [@ EXCEPT !.st = "joined", !.text = current_utterance_parts]]
  /\ Quiet
  /\ UNCHANGED <<hvars, current_utterance_parts, utterance_timer_task,
                 sched_pending, stt_pc, next_frag, blank_frags, since_frag,
                 taskvars, conversation_history, finalized>>

\* stt.py 158: handoff_session_id and handoff_session_id in active_calls
check_agent_connected ==
  handoff_session_id[ME] # None /\ handoff_session_id[ME] \in DOMAIN active_calls

\* stt.py 220-227: record the user message and create the respond task
start_response(text, before) ==
  /\ conversation_history' =
       Append(conversation_history, [role |-> "user", text |-> text])
  /\ tasks' = [tasks EXCEPT ![FreshTask] =
                 [NoTask EXCEPT !.st = "created",
                                !.over = before \cup {a \in TaskIds : TaskLive(a)}]]
  /\ tts_task' = FreshTask

\* stt.py 212: a respond task is tracked and not done
NeedsCancel == tts_task # None /\ ~TaskEnded(tts_task)

\* stt.py 188-227: clear the buffer and process the joined text
FinalizeClear(t) ==
  /\ timers[t].st = "joined"
  /\ current_utterance_parts' = <<>>
  /\ hearing' = FALSE
  /\ UNCHANGED <<hvars, utterance_timer_task, sched_pending, stt_pc, next_frag,
                 blank_frags, since_frag, lock_holder, lock_waiters, audiovars>>
  /\ IF Blank(timers[t].text)
     THEN /\ timers' = [timers EXCEPT ![t] = TimerDone]
          /\ last' = Op("other", None, "ok")
          /\ UNCHANGED <<tts_task, tasks, conversation_history, finalized>>
     ELSE
       /\ finalized' = Append(finalized, timers[t].text)
       /\ IF check_agent_connected
          THEN \* 196-209: relay the transcript to the agent, no respond task
               /\ last' = Op("relay_to_agent", handoff_session_id[ME],
                              relay_to_agent(handoff_session_id[ME]))
               /\ conversation_history' =
                    Append(conversation_history,
                           [role |-> "user", text |-> timers[t].text])
               /\ timers' = [timers EXCEPT ![t] = TimerDone]
               /\ UNCHANGED <<tts_task, tasks>>
          ELSE IF NeedsCancel
          THEN \* 212-218: cancel the running respond task and await it
               /\ tasks' = [tasks EXCEPT ![tts_task].cancel_req = TRUE]
               /\ timers' = [timers EXCEPT ![t].st = "await_tts",
                                           ![t].waits = tts_task,
                                           ![t].over = {a \in TaskIds : TaskLive(a)}]
               /\ last' = Op("other", None, "ok")
               /\ UNCHANGED <<tts_task, conversation_history>>
          ELSE /\ start_response(timers[t].text, {})
               /\ timers' = [timers EXCEPT ![t] = TimerDone]
               /\ last' = Op("other", None, "ok")

\* stt.py 216-227: the awaited respond task has ended
FinalizeResume(t) ==
  /\ timers[t].st = "await_tts"
  /\ TaskEnded(timers[t].waits)
  /\ LoopFree
  /\ start_response(timers[t].text, timers[t].over)
  /\ timers' = [timers EXCEPT ![t] = TimerDone]
  /\ Quiet
  /\ UNCHANGED <<hvars, current_utterance_parts, utterance_timer_task,
                 sched_pending, stt_pc, next_frag, blank_frags, since_frag,
                 lock_holder, lock_waiters, finalized>>

\* ----------------------------------- process_and_respond (stt.py 308-474)
\* asyncio.Lock.acquire (313): the lock is taken at once only when it is free
\* and nobody waits for it
LockFree(k) ==
  /\ lock_holder = None
  /\ \/ lock_waiters = <<>>
     \/ Head(lock_waiters) = k

Release(k) == IF lock_holder = k THEN None ELSE lock_holder
Unqueue(k) == SelectSeq(lock_waiters, LAMBDA x : x # k)

\* stt.py 315-336: inside the lock. Without a trailing user message the task
\* returns; otherwise the transcript is appended once more (324) and the
\* language model is called.
Enter(k) ==
  IF conversation_history = <<>>
     \/ conversation_history[Len(conversation_history)].role # "user"
  THEN /\ tasks' = [tasks EXCEPT ![k].st = "done"]
       /\ lock_holder' = Release(k)
       /\ UNCHANGED conversation_history
  ELSE /\ tasks' = [tasks EXCEPT ![k].st = "llm"]
       /\ lock_holder' = k
       /\ conversation_history' =
            Append(conversation_history,
                   [role |-> "user",
                    text |-> conversation_history[Len(conversation_history)].text])

\* the first step of a new respond task: async with processing_lock (313).
\* The loop runs its ready callbacks in order: tasks start in the order of
\* their creation, and after the finalizers woken by the same task end.
TaskStart(k) ==
  /\ tasks[k].st = "created"
  /\ ~tasks[k].cancel_req
  /\ LoopFree
  /\ \A j \in 1..(k-1) : tasks[j].st # "created"
  /\ \A t \in TimerIds : timers[t].st = "await_tts" => ~TaskEnded(timers[t].waits)
  /\ IF LockFree(k)
     THEN Enter(k) /\ UNCHANGED lock_waiters
     ELSE /\ tasks' = [tasks EXCEPT ![k].st = "wait_lock"]
          /\ lock_waiters' = Append(lock_waiters, k)
          /\ UNCHANGED <<lock_holder, conversation_history>>
  /\ Quiet
  /\ UNCHANGED <<hvars, debvars, tts_task, finalized>>

\* a waiting respond task is woken by the release of processing_lock (313)
TaskAcquire(k) ==
  /\ tasks[k].st = "wait_lock"
  /\ ~tasks[k].cancel_req
  /\ LoopFree
  /\ LockFree(k)
  /\ Enter(k)
  /\ lock_waiters' = Unqueue(k)
  /\ Quiet
  /\ UNCHANGED <<hvars, debvars, tts_task, finalized>>

\* stt.py 457-474: record the assistant message, send llm_response, leave the lock
Finish(k) ==
  /\ tasks' = [tasks EXCEPT ![k].st = "done", ![k].sent = TRUE,
                            ![k].chunks = 0, ![k].audio = 0]
  /\ lock_holder' = Release(k)
  /\ conversation_history' =
       Append(conversation_history, [role |-> "assistant", text |-> <<>>])

\* stt.py 332-389, 411: the language model answered. A requestHumanAgent
\* tool result queues the caller (365-379); llm_start is sent (382); the
\* answer may come with or without a text stream.
TaskLLMDone(k, handoff, stream) ==
  /\ tasks[k].st = "llm"
  /\ ~tasks[k].cancel_req
  /\ LoopFree
  /\ IF handoff /\ handoff_guard(ME) /\ next_sid <= MaxSessions
     THEN /\ SetReg(request_handoff(Reg, ME, next_sid))
          /\ next_sid' = next_sid + 1
          /\ handoff_session_id' = [handoff_session_id EXCEPT ![ME] = next_sid]
          /\ last' = [Op("request_handoff", next_sid, "ok") EXCEPT !.by = ME]
     ELSE /\ last' = IF handoff /\ ~handoff_guard(ME)
                     THEN [Op("request_handoff", handoff_session_id[ME], "skipped")
                             EXCEPT !.by = ME]
                     ELSE Op("other", None, "ok")
          /\ UNCHANGED <<regvars, agent_view, handoff_session_id>>
  /\ IF stream
     THEN /\ tasks' = [tasks EXCEPT ![k].st = "stream", ![k].sent = TRUE]
          /\ UNCHANGED <<lock_holder, conversation_history>>
     ELSE Finish(k)
  /\ hearing' = FALSE
  /\ UNCHANGED <<agent_pc, current_session, user_pc, accepted_by, debvars,
                 tts_task, lock_waiters, finalized, audiovars>>

\* stt.py 412-429: the next text chunk: response_stream is sent and, when the
\* chunk is to be spoken, audio_start; the synthesis stream is opened (434)
TaskTextChunk(k, speak) ==
  /\ tasks[k].st = "stream"
  /\ ~tasks[k].cancel_req
  /\ tasks[k].chunks < MaxChunks
  /\ LoopFree
  /\ tasks' = [tasks EXCEPT ![k].chunks = @ + 1, ![k].sent = TRUE,
                            ![k].st = IF speak THEN "tts" ELSE "stream"]
  /\ Quiet
  /\ UNCHANGED <<hvars, debvars, tts_task, lock_holder, lock_waiters,
                 conversation_history, finalized>>

\* stt.py 434-447: one synthesized audio chunk is sent to the caller
TaskAudioChunk(k) ==
  /\ tasks[k].st = "tts"
  /\ ~tasks[k].cancel_req
  /\ tasks[k].audio < MaxAudio
  /\ LoopFree
  /\ tasks' = [tasks EXCEPT ![k].audio = @ + 1]
  /\ Quiet
  /\ UNCHANGED <<hvars, debvars, tts_task, lock_holder, lock_waiters,
                 conversation_history, finalized>>

\* stt.py 434: the synthesis stream of this text chunk is exhausted
TaskTtsEnd(k) ==
  /\ tasks[k].st = "tts"
  /\ ~tasks[k].cancel_req
  /\ LoopFree
  /\ tasks' = [tasks EXCEPT ![k].st = "stream"]
  /\ Quiet
  /\ UNCHANGED <<hvars, debvars, tts_task, lock_holder, lock_waiters,
                 conversation_history, finalized>>

\* stt.py 402-404, 453-474: the text stream is exhausted
TaskStreamEnd(k) ==
  /\ tasks[k].st = "stream"
  /\ ~tasks[k].cancel_req
  /\ LoopFree
  /\ Finish(k)
  /\ Quiet
  /\ UNCHANGED <<hvars, debvars, tts_task, lock_waiters, finalized>>

\* stt.py 448-451: only a cancellation that arrives inside the synthesis loop
\* is answered with the "interrupted" notification
SendsInterrupted(k) == tasks[k].st = "tts"

\* the CancelledError of Task.cancel() (214) is raised at the await the task
\* is suspended in; the task ends cancelled and leaves the lock
TaskCancelled(k) ==
  /\ TaskLive(k)
  /\ tasks[k].cancel_req
  /\ LoopFree
  /\ tasks' = [tasks EXCEPT ![k].st = "cancelled",
                            ![k].chunks = 0, ![k].audio = 0,
                            ![k].interrupted = SendsInterrupted(k),
                            ![k].sent = @ \/ SendsInterrupted(k)]
  /\ lock_holder' = Release(k)
  /\ lock_waiters' = Unqueue(k)
  /\ Quiet
  /\ UNCHANGED <<hvars, debvars, tts_task, conversation_history, finalized>>

\* stt.py 411-451: the text stream of the language model (412) or the
\* synthesis stream (434) raises an exception other than CancelledError.
\* process_and_respond has no handler for it (the one except clause, 448,
\* names asyncio.CancelledError): the exception leaves the coroutine through
\* `async with processing_lock`, and the task ends with it, nothing more
\* being sent to the caller. An exception inside the language-model call (332)
\* never reaches the task: llm_service.process_stream (llm_service.py
\* 110-127) returns a result without a stream, which is TaskLLMDone with
\* stream = FALSE.
TaskRaises(k) ==
  /\ tasks[k].st \in {"stream", "tts"}
  /\ ~tasks[k].cancel_req
  /\ LoopFree
  /\ tasks' = [tasks EXCEPT ![k].st = "raised", ![k].chunks = 0, ![k].audio = 0]
  /\ lock_holder' = Release(k)
  /\ Quiet
  /\ UNCHANGED <<hvars, debvars, tts_task, lock_waiters, conversation_history,
                 finalized>>

\* stt.py 484-499: a binary audio frame from the caller; `speech` tells
\* whether the caller is speaking in it. The frame is relayed to the agent
\* of an active call and streamed to the transcription service.
TurnAudio(speech) ==
  /\ user_pc[ME] = "open"
  /\ LoopFree
  /\ last' = IF check_agent_connected
             THEN Op("relay_to_agent", handoff_session_id[ME],
                     relay_to_agent(handoff_session_id[ME]))
             ELSE Op("relay_to_agent", None, "skipped")
  /\ hearing' = speech
  /\ UNCHANGED <<hvars, debvars, taskvars, conversation_history, finalized,
                 audiovars>>

\* stt.py 479-482, 530-536: ws.receive() delivers websocket.disconnect and
\* the ingress loop of the session breaks. No exception is raised, so only
\* the finally block runs: the transcription service is disconnected.
\* Neither tts_task nor utterance_timer_task is touched. (twilio.py 463-465,
\* 481-488: the stop event breaks the loop in the same way.)
SessionBreak ==
  /\ user_pc[ME] = "open"
  /\ LoopFree
  /\ user_pc' = [user_pc EXCEPT ![ME] = "closed"]
  /\ handoff_session_id' = [handoff_session_id EXCEPT ![ME] = None]
  /\ Quiet
  /\ UNCHANGED <<regvars, agentvars, accepted_by, debvars, taskvars,
                 conversation_history, finalized>>

\* stt.py 512-529: ws.receive() or a send of the loop raises (transport
\* error). The except block cancels the tracked respond task when it is not
\* done (514-515, 524-525) and cleans up the handoff; utterance_timer_task is
\* not cancelled. (twilio.py 470-477: the same, without the handoff.)
SessionError ==
  /\ user_pc[ME] = "open"
  /\ LoopFree
  /\ tasks' = IF NeedsCancel THEN [tasks EXCEPT ![tts_task].cancel_req = TRUE]
              ELSE tasks
  /\ SetReg(caller_cleanup(Reg, ME))
  /\ user_pc' = [user_pc EXCEPT ![ME] = "closed"]
  /\ handoff_session_id' = [handoff_session_id EXCEPT ![ME] = None]
  /\ Quiet
  /\ UNCHANGED <<next_sid, agent_pc, current_session, accepted_by, debvars,
                 tts_task, lock_holder, lock_waiters, conversation_history,
                 finalized>>

\* ------------------------------------------- voice-activity segmenter
\* api/stt/routes.py 143-151: the frame is scored; a frame above
\* SPEECH_THRESHOLD starts or continues speech and clears the silence count,
\* any other frame counts as silence while speaking
vad_score(v, speech) ==
  IF speech THEN [v EXCEPT !.speaking = TRUE, !.silence_chunks = 0]
  ELSE IF v.speaking THEN [v EXCEPT !.silence_chunks = @ + 1]
  ELSE v

\* api/stt/routes.py 156: the end-of-speech test
vad_ended(v) == v.speaking /\ v.silence_chunks >= SILENCE_LIMIT_CHUNKS

\* api/stt/routes.py 156-160: speech has ended
vad_end(v) ==
  IF vad_ended(v) THEN [v EXCEPT !.speaking = FALSE, !.silence_chunks = 0] ELSE v

\* The caller's audio, frame by frame, whatever becomes of it: `run` counts
\* the frames at or below the threshold since the last frame above it;
\* `frames` counts the frames so far while they follow the script of
\* MaxSpeechFrames frames of speech and then SILENCE_LIMIT_CHUNKS of silence;
\* `transitions` counts the times speaking went from true to false.
Heard(speech, ended) ==
  [run |-> IF speech THEN 0 ELSE Min(heard.run + 1, SILENCE_LIMIT_CHUNKS + 1),
   script |-> /\ heard.script
              /\ IF heard.frames < MaxSpeechFrames THEN speech
                 ELSE ~speech /\ heard.frames < MaxSpeechFrames + SILENCE_LIMIT_CHUNKS,
   frames |-> IF /\ heard.script
                 /\ IF heard.frames < MaxSpeechFrames THEN speech
                    ELSE ~speech /\ heard.frames < MaxSpeechFrames + SILENCE_LIMIT_CHUNKS
              THEN heard.frames + 1 ELSE 0,
   transitions |-> IF ended THEN Min(heard.transitions + 1, MaxTransitions)
                   ELSE heard.transitions]

\* api/stt/routes.py 126-160, audio_websocket: one binary frame of the app
\* route is scored and the state machine steps
AudioFrame(speech) ==
  /\ vad.kind = "app"
  /\ vad.pc = "open"
  /\ vad' = vad_end(vad_score(vad, speech))
  /\ heard' = Heard(speech, vad_ended(vad_score(vad, speech)))
  /\ UNCHANGED <<hvars, last, debvars, taskvars, conversation_history,
                 finalized, hearing, resampled, agent_ids>>

\* twilio.py 383-418, 477-480, media_stream: one media event of the
\* telephony route. The frame is decoded and streamed to the transcription
\* service; then `vad_buffer += resampled` (418) reads a local that
\* media_stream assigns nowhere before: UnboundLocalError, caught by
\* `except Exception` (477), and the handler returns. The state machine of
\* 425-461 (whose `speaking`, `silence_chunks` and `processing_llm` are not
\* initialised either) is never reached.
MediaFrame(speech) ==
  /\ vad.kind = "telephony"
  /\ vad' = IF vad.pc = "open" THEN [vad EXCEPT !.pc = "closed"] ELSE vad
  /\ heard' = Heard(speech, FALSE)
  /\ UNCHANGED <<hvars, last, debvars, taskvars, conversation_history,
                 finalized, hearing, resampled, agent_ids>>

\* api/stt/routes.py 128-130: a session of one of the given kinds, accepted
InitSegmenter(kinds) ==
  /\ vad \in [kind : kinds, pc : {"open"}, speaking : {FALSE},
               silence_chunks : {0}]
  /\ heard = [run |-> 0, script |-> TRUE, frames |-> 0, transitions |-> 0]

\* ------------------------------------------------------------ resampler
\* the sample rates the gateway converts between (agent.py 257, 273;
\* twilio.py 41, 45), in Hz
Rates == {8000, 16000, 44100}

\* no call of upsample_audio yet
NoAudio == [num_samples |-> 0, from_rate |-> 16000, to_rate |-> 16000,
            done |-> FALSE, out_length |-> 0]

\* agent.py 35-44, 55: the number of samples upsample_audio returns. Equal
\* rates return the input; otherwise ratio = to_rate / from_rate and
\* out_length = int(num_samples * ratio), int() dropping the fraction
upsample_audio(num_samples, from_rate, to_rate) ==
  IF from_rate = to_rate THEN num_samples
  ELSE (num_samples * to_rate) \div from_rate

\* agent.py 33-55: the call returns
Upsample ==
  /\ ~resampled.done
  /\ resampled' = [resampled EXCEPT
                     !.done = TRUE,
                     !.out_length = upsample_audio(resampled.num_samples,
                                                   resampled.from_rate,
                                                   resampled.to_rate)]
  /\ UNCHANGED <<hvars, last, debvars, taskvars, conversation_history,
                 finalized, hearing, vadvars, agent_ids>>

\* ------------------------------------------------------- specifications
InitRegistry ==
  /\ pending_handoffs = <<>>
  /\ active_calls = <<>>
  /\ next_sid = 1
  /\ registry_lock = None
  /\ current_session = [c \in AgentConns |-> None]
  /\ agent_view = [c \in AgentConns |-> {}]
  /\ user_pc = [u \in Callers |-> "open"]
  /\ handoff_session_id = [u \in Callers |-> None]
  /\ accepted_by = [s \in SessionIds |-> <<>>]
  /\ last = Op("init", None, "ok")

InitSession ==
  /\ current_utterance_parts = <<>>
  /\ utterance_timer_task = None
  /\ timers = [t \in TimerIds |-> NoTimer]
  /\ sched_pending = 0
  /\ stt_pc = "idle"
  /\ next_frag = 1
  /\ blank_frags = {}
  /\ since_frag = UTTERANCE_TIMEOUT
  /\ tts_task = None
  /\ tasks = [k \in TaskIds |-> NoTask]
  /\ lock_holder = None
  /\ lock_waiters = <<>>
  /\ conversation_history = <<>>
  /\ finalized = <<>>
  /\ hearing = FALSE

\* the registry after construction, the caller connections accepted, no
\* agent connected yet
Init ==
  /\ InitRegistry
  /\ InitSession
  /\ InitSegmenter({"app"})
  /\ resampled = NoAudio
  /\ agent_ids = OwnIds
  /\ available_agents = <<>>
  /\ agent_pc = [c \in AgentConns |-> "new"]

Next ==
  \/ \E c \in AgentConns, f \in BOOLEAN : AgentConnect(c, f)
  \/ \E c \in AgentConns, s \in SessionIds, f \in BOOLEAN : AgentAcceptCall(c, s, f)
  \/ \E c \in AgentConns, s \in SessionIds \cup {None} : AgentEndCall(c, s)
  \/ \E c \in AgentConns, s \in SessionIds \cup {None} : AgentMessage(c, s)
  \/ \E c \in AgentConns : AgentAudio(c)
  \/ \E c \in AgentConns, f \in BOOLEAN : AgentPing(c, f)
  \/ \E c \in AgentConns : AgentDisconnect(c)
  \/ \E u \in Callers : CallerRequestHandoff(u)
  \/ \E u \in Callers : CallerAudio(u)
  \/ \E u \in Callers, f \in BOOLEAN : CallerPing(u, f)
  \/ \E u \in Callers : CallerDisconnect(u)

Spec == Init /\ [][Next]_vars

\* the registry with a broadcast that takes time: between the two steps of
\* request_handoff every other handler may run
NextLock ==
  \/ Next
  \/ \E u \in Callers : RequestHandoffSending(u)
  \/ RequestHandoffSent

SpecLock == Init /\ [][NextLock]_vars

\* the registry with every agent connection signing in under one agent id
InitSameId ==
  /\ InitRegistry
  /\ InitSession
  /\ InitSegmenter({"app"})
  /\ resampled = NoAudio
  /\ agent_ids = SameId
  /\ available_agents = <<>>
  /\ agent_pc = [c \in AgentConns |-> "new"]

SpecSameId == InitSameId /\ [][Next]_vars

\* one caller session in detail; agent connection 1 is connected and
\* registered as agent 1 and serves the handoff this session may request
InitTurn ==
  /\ InitRegistry
  /\ InitSession
  /\ InitSegmenter({"app"})
  /\ resampled = NoAudio
  /\ agent_ids = OwnIds
  /\ available_agents = (1 :> 1)
  /\ agent_pc = [c \in AgentConns |-> IF c = 1 THEN "open" ELSE "new"]

NextTurn ==
  \/ Tick
  \/ \E b \in BOOLEAN : OnTranscriptAppend(b, MaxFrags)
  \/ OnTranscriptSchedule
  \/ ScheduleTimer
  \/ \E t \in TimerIds : FinalizeJoin(t)
  \/ \E t \in TimerIds : FinalizeClear(t)
  \/ \E t \in TimerIds : FinalizeResume(t)
  \/ \E k \in TaskIds : TaskStart(k)
  \/ \E k \in TaskIds : TaskAcquire(k)
  \/ \E k \in TaskIds, h \in BOOLEAN, st \in BOOLEAN : TaskLLMDone(k, h, st)
  \/ \E k \in TaskIds, sp \in BOOLEAN : TaskTextChunk(k, sp)
  \/ \E k \in TaskIds : TaskAudioChunk(k)
  \/ \E k \in TaskIds : TaskTtsEnd(k)
  \/ \E k \in TaskIds : TaskStreamEnd(k)
  \/ \E k \in TaskIds : TaskCancelled(k)
  \/ \E sp \in BOOLEAN : TurnAudio(sp)
  \/ \E s \in SessionIds : AgentAcceptCall(1, s, FALSE)
  \/ AgentEndCall(1, None)

SpecTurn == InitTurn /\ [][NextTurn]_vars

\* one caller session over a longer conversation: every fragment has text,
\* the language model never asks for a human agent
NextBarge ==
  \/ Tick
  \/ OnTranscriptAppend(FALSE, MaxBargeFrags)
  \/ OnTranscriptSchedule
  \/ ScheduleTimer
  \/ \E t \in TimerIds : FinalizeJoin(t)
  \/ \E t \in TimerIds : FinalizeClear(t)
  \/ \E t \in TimerIds : FinalizeResume(t)
  \/ \E k \in TaskIds : TaskStart(k)
  \/ \E k \in TaskIds : TaskAcquire(k)
  \/ \E k \in TaskIds, st \in BOOLEAN : TaskLLMDone(k, FALSE, st)
  \/ \E k \in TaskIds, sp \in BOOLEAN : TaskTextChunk(k, sp)
  \/ \E k \in TaskIds : TaskAudioChunk(k)
  \/ \E k \in TaskIds : TaskTtsEnd(k)
  \/ \E k \in TaskIds : TaskStreamEnd(k)
  \/ \E k \in TaskIds : TaskCancelled(k)

SpecBarge == InitTurn /\ [][NextBarge]_vars

\* one caller session whose language-model stream or speech synthesis can
\* raise
NextFail ==
  \/ Tick
  \/ OnTranscriptAppend(FALSE, MaxFrags)
  \/ OnTranscriptSchedule
  \/ ScheduleTimer
  \/ \E t \in TimerIds : FinalizeJoin(t)
  \/ \E t \in TimerIds : FinalizeClear(t)
  \/ \E t \in TimerIds : FinalizeResume(t)
  \/ \E k \in TaskIds : TaskStart(k)
  \/ \E k \in TaskIds : TaskAcquire(k)
  \/ \E k \in TaskIds, st \in BOOLEAN : TaskLLMDone(k, FALSE, st)
  \/ \E k \in TaskIds, sp \in BOOLEAN : TaskTextChunk(k, sp)
  \/ \E k \in TaskIds : TaskAudioChunk(k)
  \/ \E k \in TaskIds : TaskTtsEnd(k)
  \/ \E k \in TaskIds : TaskStreamEnd(k)
  \/ \E k \in TaskIds : TaskCancelled(k)
  \/ \E k \in TaskIds : TaskRaises(k)

SpecFail == InitTurn /\ [][NextFail]_vars

\* one caller session whose ingress loop ends, by a disconnect message or by
\* a transport error
NextEnd ==
  \/ Tick
  \/ OnTranscriptAppend(FALSE, MaxFrags)
  \/ OnTranscriptSchedule
  \/ ScheduleTimer
  \/ \E t \in TimerIds : FinalizeJoin(t)
  \/ \E t \in TimerIds : FinalizeClear(t)
  \/ \E t \in TimerIds : FinalizeResume(t)
  \/ \E k \in TaskIds : TaskStart(k)
  \/ \E k \in TaskIds : TaskAcquire(k)
  \/ \E k \in TaskIds, st \in BOOLEAN : TaskLLMDone(k, FALSE, st)
  \/ \E k \in TaskIds, sp \in BOOLEAN : TaskTextChunk(k, sp)
  \/ \E k \in TaskIds : TaskAudioChunk(k)
  \/ \E k \in TaskIds : TaskTtsEnd(k)
  \/ \E k \in TaskIds : TaskStreamEnd(k)
  \/ \E k \in TaskIds : TaskCancelled(k)
  \/ SessionBreak
  \/ SessionError

SpecEnd == InitTurn /\ [][NextEnd]_vars

\* upsample_audio called with any buffer of up to MaxSamples samples and any
\* pair of rates
InitResample ==
  /\ InitRegistry
  /\ InitSession
  /\ InitSegmenter({"app"})
  /\ agent_ids = OwnIds
  /\ available_agents = <<>>
  /\ agent_pc = [c \in AgentConns |-> "new"]
  /\ resampled \in [num_samples : 0..MaxSamples, from_rate : Rates,
                     to_rate : Rates, done : {FALSE}, out_length : {0}]

NextResample == Upsample

SpecResample == InitResample /\ [][NextResample]_vars

\* the segmenter of one session, of the app route or of the telephony route,
\* fed with any sequence of frames
InitVad ==
  /\ InitRegistry
  /\ InitSession
  /\ InitSegmenter({"app", "telephony"})
  /\ resampled = NoAudio
  /\ agent_ids = OwnIds
  /\ available_agents = <<>>
  /\ agent_pc = [c \in AgentConns |-> "new"]

NextVad ==
  \/ \E speech \in BOOLEAN : AudioFrame(speech)
  \/ \E speech \in BOOLEAN : MediaFrame(speech)

SpecVad == InitVad /\ [][NextVad]_vars

\* ----------------------------------------------------------- properties
\* the respond tasks that are outstanding
Outstanding == {k \in TaskIds : TaskLive(k)}

\* fragment f is one of the parts of text
InUtterance(f, text) == \E i \in 1..Len(text) : text[i] = f

\* in how many finalized utterances fragment f appears
Times(f) == Cardinality({i \in 1..Len(finalized) : InUtterance(f, finalized[i])})

\* C1: when two agents accept the same pending session, exactly one accept
\* creates the call and the other is answered "unavailable"; the ActiveCall
\* carries the agent id of the accept that came first.
C1_FirstAcceptWins ==
  /\ \A s \in SessionIds :
       /\ Len(accepted_by[s]) <= 1
       /\ s \in DOMAIN active_calls =>
            /\ Len(accepted_by[s]) = 1
            /\ active_calls[s].agent_id = accepted_by[s][1]
  /\ last.op = "accept_call" =>
       /\ last.ret \in {"created", "created_raised", "unavailable"}
       /\ last.ret # "unavailable" => accepted_by[last.sid] = <<agent_id(last.by)>>

\* C1, its case: a session is in a call with one agent and a different agent
\* has just been refused for it
C1_SecondAgentRefused ==
  /\ last.op = "accept_call"
  /\ last.ret = "unavailable"
  /\ last.sid \in DOMAIN active_calls
  /\ active_calls[last.sid].agent_id # agent_id(last.by)
  /\ agent_pc[last.by] = "open"

\* C2: accept_call for a session that has no PendingHandoff answers
\* "unavailable" and, as long as the handler stays in its loop, leaves the
\* pending queue, the active calls and the agent directory as they were.
C2_AcceptMissIsNoOp ==
  [][(last'.op = "accept_call" /\ last'.sid \notin DOMAIN pending_handoffs)
       => /\ last'.ret = "unavailable"
          /\ agent_pc' = agent_pc =>
               UNCHANGED <<pending_handoffs, active_calls, available_agents>>]_vars

\* C2, its case: an accept for a session that is not pending has been
\* answered while a handoff waits and a call is active
C2_AcceptMissSeen ==
  /\ last.op = "accept_call"
  /\ last.ret = "unavailable"
  /\ agent_pc[last.by] = "open"
  /\ pending_handoffs # <<>>
  /\ active_calls # <<>>

\* C3: no agent id is the agent of more than one ActiveCall.
C3_OneCallPerAgent ==
  \A s1, s2 \in DOMAIN active_calls :
    s1 # s2 => active_calls[s1].agent_id # active_calls[s2].agent_id

\* C4: once a caller's connection has ended, the registry holds no
\* PendingHandoff and no ActiveCall of that caller.
C4_CallerLeavesNothing ==
  \A u \in Callers :
    user_pc[u] = "closed" =>
      /\ \A s \in DOMAIN pending_handoffs : pending_handoffs[s].user_ws # u
      /\ \A s \in DOMAIN active_calls : active_calls[s].user_ws # u

\* C5: once an agent's connection has ended, no ActiveCall with that agent
\* transport remains.
C5_AgentLeavesNoCall ==
  \A c \in AgentConns :
    agent_pc[c] = "closed" =>
      \A s \in DOMAIN active_calls : active_calls[s].agent_ws # c

\* C6: at most one respond task is outstanding in a session at any time.
C6_OneRespondTask == Cardinality(Outstanding) <= 1

\* C7: a respond task B has sent nothing to the caller before every respond
\* task that was outstanding when B was created has ended cancelled; and a
\* task that sent "interrupted" has ended, so none of its audio follows.
C7_CancelledBeforeNextSpeaks ==
  \A b \in TaskIds :
    /\ tasks[b].sent /\ ~tasks[b].interrupted =>
         \A a \in tasks[b].over : tasks[a].st = "cancelled"
    /\ tasks[b].interrupted => tasks[b].st = "cancelled"

\* C8: an audio frame in which the caller speaks, received while a respond
\* task runs, cancels that task in the same step.
C8_SpeechCancelsAtOnce ==
  [][hearing' =>
       \A k \in TaskIds :
         TaskLive(k) => tasks'[k].cancel_req \/ tasks'[k].st = "cancelled"]_vars

\* C9: finalize_utterance takes the buffered fragments only when a full quiet
\* period has passed since the most recent fragment arrived.
C9_FinalizeAfterQuietPeriod ==
  [][\A t \in TimerIds :
       (timers[t].st # "joined" /\ timers'[t].st = "joined")
         => since_frag >= UTTERANCE_TIMEOUT]_vars

\* C10: every fragment with text that has arrived is still buffered, or is
\* being finalized, or appears in exactly one finalized utterance: none is
\* dropped and none appears twice.
C10_FragmentsKeptOnce ==
  \A f \in 1..(next_frag - 1) :
    f \notin blank_frags =>
      /\ Times(f) <= 1
      /\ \/ Times(f) = 1
         \/ InUtterance(f, current_utterance_parts)
         \/ \E t \in TimerIds :
              timers[t].st = "joined" /\ InUtterance(f, timers[t].text)

\* C11: a session id moves only forward: it is never pending and active at
\* once, an active session never becomes pending again, a session enters the
\* pending queue only under a fresh id and enters the active calls only from
\* the pending queue, so an id that has left both maps never comes back.
C11_SessionsMoveForward ==
  [][\A s \in SessionIds :
       /\ ~(s \in DOMAIN pending_handoffs' /\ s \in DOMAIN active_calls')
       /\ s \in DOMAIN active_calls => s \notin DOMAIN pending_handoffs'
       /\ (s \notin DOMAIN pending_handoffs /\ s \in DOMAIN pending_handoffs')
            => s = next_sid
       /\ (s \notin DOMAIN active_calls /\ s \in DOMAIN active_calls')
            => s \in DOMAIN pending_handoffs]_vars

\* C11, its case: one session went pending, active, ended and another went
\* pending and was removed without ever being accepted
C11_BothPathsTaken ==
  \E s1, s2 \in SessionIds :
    /\ s1 < next_sid /\ s2 < next_sid
    /\ {s1, s2} \cap (DOMAIN pending_handoffs \cup DOMAIN active_calls) = {}
    /\ accepted_by[s1] # <<>>
    /\ accepted_by[s2] = <<>>

\* caller connection u has a PendingHandoff or an ActiveCall in the registry
HasHandoff(u) ==
  \/ \E s \in DOMAIN pending_handoffs : pending_handoffs[s].user_ws = u
  \/ \E s \in DOMAIN active_calls : active_calls[s].user_ws = u

C13_FailedSendIsIgnored ==
  /\ last.ret \notin {"raised", "created_raised"}
  /\ (last.op = "accept_call" /\ last.ret # "unavailable") =>
       \A a \in DOMAIN available_agents :
         agent_pc[available_agents[a]] = "open" =>
           last.sid \notin agent_view[available_agents[a]]

\* C14: a send that is slow, or never completes, keeps no other party's
\* registry operation from completing: whatever send is in flight, an agent
\* whose connection is open can leave and be unregistered.
C14_SlowSendBlocksNobody ==
  \A c \in AgentConns : agent_pc[c] = "open" => ENABLED AgentDisconnect(c)

\* C15: when a caller's connection ends while its handoff is pending, the
\* PendingHandoff is removed in that step and no registered agent is left
\* showing the session as waiting (each was sent call_cancelled).
C15_DisconnectCancelsPending ==
  [][\A u \in Callers :
       (user_pc[u] = "open" /\ user_pc'[u] = "closed") =>
         \A s \in DOMAIN pending_handoffs :
           pending_handoffs[s].user_ws = u =>
             /\ s \notin DOMAIN pending_handoffs'
             /\ \A a \in DOMAIN available_agents' :
                  agent_pc'[available_agents'[a]] = "open" =>
                    s \notin agent_view'[available_agents'[a]]]_vars

SameBut(m, m2, k) ==
  /\ DOMAIN m2 = DOMAIN m \ {k}
  /\ \A x \in DOMAIN m2 : m2[x] = m[x]

\* C17: after end_call(session_id) the session is in neither the pending
\* queue nor the active calls, whichever it was in, and every other session
\* and the agent directory are as they were.
C17_EndCallRemovesSession ==
  [][(last'.op = "end_call" /\ last'.ret = "ok") =>
       /\ SameBut(pending_handoffs, pending_handoffs', last'.sid)
       /\ SameBut(active_calls, active_calls', last'.sid)
       /\ available_agents' = available_agents]_vars

\* C17, its case: a session that existed has been ended while another
\* session waits or is in a call
C17_EndCallSeen ==
  /\ last.op = "end_call"
  /\ last.ret = "ok"
  /\ last.sid < next_sid
  /\ pending_handoffs # <<>> \/ active_calls # <<>>

\* C18: a relay forwards only while the session has an ActiveCall, is
\* dropped otherwise, and in both cases, also when the send fails, leaves the
\* pending queue, the active calls and the agent directory as they were.
C18_RelayOnlyWhileActive ==
  [][(last'.op \in {"relay_to_user", "relay_to_agent"} /\ last'.sid # None) =>
       /\ last'.sid \in DOMAIN active_calls
            => last'.ret \in {"forwarded", "send_failed"}
       /\ last'.sid \notin DOMAIN active_calls => last'.ret = "dropped"
       /\ UNCHANGED <<pending_handoffs, active_calls, available_agents>>]_vars

\* C18, its case: an agent's message for a session that is still waiting
\* has been dropped
C18_RelayDropped ==
  /\ last.op = "relay_to_user"
  /\ last.ret = "dropped"
  /\ last.sid \in DOMAIN pending_handoffs

\* C19: an exception of the language model or of the speech synthesis during
\* a respond task is caught inside the task: no respond task ends by an
\* exception (it goes on to tell the caller that something went wrong).
C19_RespondErrorsCaught ==
  \A k \in TaskIds : tasks[k].st # "raised"

\* the scripted frame sequence has been produced in full
ScriptDone ==
  heard.script /\ heard.frames = MaxSpeechFrames + SILENCE_LIMIT_CHUNKS

\* C20: speaking becomes false only on the frame that completes
\* SILENCE_LIMIT_CHUNKS consecutive frames at or below the threshold since
\* the last frame above it; a frame above the threshold clears the silence
\* count; and the scripted sequence of MaxSpeechFrames frames of speech and
\* SILENCE_LIMIT_CHUNKS frames of silence gives exactly one silence
\* transition, on its last frame and not earlier.
C20_SilenceAfterFullRun ==
  [][/\ (vad.speaking /\ ~vad'.speaking) => heard'.run = SILENCE_LIMIT_CHUNKS
     /\ heard'.run = 0 => vad'.silence_chunks = 0
     /\ (heard'.script /\ ~ScriptDone') => heard'.transitions = 0
     /\ ScriptDone' =>
          heard'.transitions = 1 /\ heard.transitions = 0 /\ ~vad'.speaking]_vars

\* C21: once the ingress loop of a session has ended, no utterance of that
\* session is finalized any more and no respond task of it is created or
\* moves on: a task changes only by ending cancelled.
C21_NothingAfterSessionEnd ==
  [][user_pc[ME] = "closed" =>
       /\ finalized' = finalized
       /\ \A k \in TaskIds :
            tasks'[k].st # tasks[k].st => tasks'[k].st = "cancelled"]_vars

\* C22: while the caller's session has an ActiveCall, no step creates a
\* respond task and no step sends the caller a text chunk of the language
\* model or a chunk of synthesized audio.
C22_ActiveCallBypassesModel ==
  [][check_agent_connected =>
       \A k \in TaskIds :
         /\ tasks'[k].st = "created" => tasks[k].st = "created"
         /\ tasks'[k].chunks <= tasks[k].chunks
         /\ tasks'[k].audio <= tasks[k].audio]_vars

\* a / b rounded to the nearest integer, halves up (a >= 0, b > 0)
Round(a, b) == (2 * a + b) \div (2 * b)

\* C23: for n samples and any pair of rates, the resampler returns exactly
\* round(n * to_rate / from_rate) samples.
C23_ResampledLength ==
  resampled.done =>
    resampled.out_length =
      Round(resampled.num_samples * resampled.to_rate, resampled.from_rate)

\* C24: the operations that change the pending queue, the active calls or
\* the agent directory exclude one another: while one of them holds the
\* registry lock, in the middle of its update, no step changes any of the
\* three maps.
C24_UpdatesUnderLock ==
  [][registry_lock # None =>
       UNCHANGED <<pending_handoffs, active_calls, available_agents>>]_vars

\* C24, its case: a request holds the lock between queueing and announcing
\* its handoff while an agent in a call and a second agent are connected
C24_LockHeldAmongOthers ==
  /\ registry_lock # None
  /\ registry_lock \in DOMAIN pending_handoffs
  /\ active_calls # <<>>
  /\ \A c \in AgentConns : agent_pc[c] = "open"

\* C25: in a telephony session the ingress loop goes on after every media
\* event with a payload: as long as neither a stop event nor a transport
\* disconnect has arrived (none does in SpecVad) the handler is in its loop.
C25_MediaLoopGoesOn ==
  vad.kind = "telephony" => vad.pc = "open"

\* C26: an end_call or message sent by an agent connection takes effect only
\* on a session whose ActiveCall names that agent: when such a message
\* changes the registry or is forwarded to a caller, the session was active
\* and was served by the sending agent.
C26_AgentActsOnOwnCall ==
  [][(/\ last'.by \in AgentConns
      /\ \/ /\ last'.op = "end_call"
            /\ <<pending_handoffs, active_calls>>' # <<pending_handoffs, active_calls>>
         \/ /\ last'.op = "relay_to_user"
            /\ last'.ret = "forwarded") =>
       /\ last'.sid \in DOMAIN active_calls
       /\ active_calls[last'.sid].agent_id = agent_id(last'.by)]_vars

\* C27: every removal of a PendingHandoff is announced to every registered
\* agent, so for every registered agent whose connection is open the set of
\* sessions it has been told are pending and has not been told are withdrawn
\* equals the pending map.
C27_ViewIsPendingMap ==
  \A a \in DOMAIN available_agents :
    agent_pc[available_agents[a]] = "open" =>
      agent_view[available_agents[a]] = DOMAIN pending_handoffs

\* C28: the directory entry of an agent id is removed only when the
\* connection it refers to closes: whenever an entry leaves the directory,
\* the connection it named has closed. With two connections under one agent
\* id, closing the older leaves the newer registered.
C28_EntryLeavesWithItsConnection ==
  [][\A a \in DOMAIN available_agents :
       a \notin DOMAIN available_agents' =>
         agent_pc'[available_agents[a]] = "closed"]_vars

\* the number of user entries of history h that hold the given utterance
UserEntries(h, text) ==
  Cardinality({j \in 1..Len(h) : h[j].role = "user" /\ h[j].text = text})

\* C29: each finalized utterance is recorded exactly once as a user entry by
\* the time the language model is called: in the step in which a respond
\* task calls the model, the history it passes holds the utterance it
\* answers in exactly one user entry.
C29_UtteranceRecordedOnce ==
  [][\A k \in TaskIds :
       (tasks[k].st # "llm" /\ tasks'[k].st = "llm") =>
         UserEntries(conversation_history',
                     conversation_history'[Len(conversation_history')].text) = 1]_vars

\* C30: after a caller's handoff has ended while the caller stays connected,
\* a later handoff request of that caller is queued again as a new
\* PendingHandoff: when a caller whose call with an agent was created and is
\* over (nothing of the caller is pending or active) asks for a human, the
\* request adds a pending entry under a fresh session id.
C30_RequestAfterEndedCallQueues ==
  [][(/\ last'.op = "request_handoff"
      /\ last'.by \in Callers
      /\ handoff_session_id[last'.by] # None
      /\ accepted_by[handoff_session_id[last'.by]] # <<>>
      /\ ~HasHandoff(last'.by)) =>
       /\ last'.ret = "ok"
       /\ last'.sid \notin DOMAIN pending_handoffs
       /\ last'.sid \in DOMAIN pending_handoffs']_vars

====
